---- MODULE Spec2Model ----
(***************************************************************************)
(* Model of nhl-setup/web/config_server.py: the plugin reconciliation      *)
(* (get_plugin_status), the installed-manifest self-heal                   *)
(* (check_and_create_installed_plugins_file), the command runner           *)
(* (run_shell_script, run_plugin_script) and the handlers that use them,   *)
(* and of nhl-setup/web/mqtt_test.py, the connectivity probe.              *)
(*                                                                         *)
(* Spec, SpecCommands and SpecParser take one request at a time, each      *)
(* handler one step; SpecExternal stops the handlers at their calls to the *)
(* outside, SpecHeal runs two requests of the read path at once, and       *)
(* SpecProbe runs the two threads of the probe process.                    *)
(*                                                                         *)
(* Files are modelled by what the code can observe of them: absent, or a   *)
(* content class (zero bytes, not JSON, a JSON object without a "plugins"  *)
(* key, one whose "plugins" is a non-empty non-list value, or one whose    *)
(* "plugins" is a list of entries).  Operations on paths that exist are    *)
(* taken to succeed (no disk or permission faults); failures come from     *)
(* absence and content, from the network, and from the child process.      *)
(*                                                                         *)
(* A text is the sequence of its lines, as str.split('\n') gives them (so  *)
(* a text that ends in a newline has an empty last line); a line is the    *)
(* sequence of its whitespace-delimited tokens, as str.split() gives them. *)
(***************************************************************************)
EXTENDS Integers, Sequences, FiniteSets, TLC

VARIABLES
    index_file,      \* content of PLUGINS_INDEX_FILE (plugins_index.json)
    installed_file,  \* content of PLUGINS_INSTALLED_FILE (plugins.json)
    example_file,    \* content of PLUGINS_EXAMPLE_FILE (plugins.json.example)
    op,              \* the handler that has run and not yet answered, or "idle"
    restore,         \* what check_and_create_installed_plugins_file did in it
    run,             \* the run_shell_script call that handler made, if any
    cmd_result,      \* the CommandResult that handler got back, if any
    plugin_statuses, \* get_plugin_status: the parsed live-status map
    response,        \* what the handler returned
    call,            \* the external call a handler is waiting in, if any
    disk,            \* plugins.json cell by cell while a copy rewrites it
    workers,         \* concurrent requests inside the read path
    argv,            \* mqtt_test.py: its command line
    host,            \* mqtt_test.py: the machine and broker it runs against
    main_thread,     \* mqtt_test.py: where main() stands
    loop_thread,     \* mqtt_test.py: the network loop thread of the client
    connection_state,\* mqtt_test.py: the dict main and on_connect share
    sys_stdout       \* mqtt_test.py: the lines printed so far

\* the state of the probe process
probeVars ==
    <<argv, host, main_thread, loop_thread, connection_state, sys_stdout>>

\* the state of concurrent requests on the manifest
healVars == <<disk, workers>>

\* what a handler that runs alone and returns at once leaves untouched
asideVars == <<call, healVars, probeVars>>

vars == <<index_file, installed_file, example_file, op, restore, run,
          cmd_result, plugin_statuses, response, asideVars>>

----------------------------------------------------------------------------
(* Bounds *)

\* longest plugin list in a catalog document
MaxCatalog == 1
\* longest plugin list in an installed manifest
MaxInstalled == 2
\* longest plugin list in the bundled template
MaxExample == 1

----------------------------------------------------------------------------
(* JSON documents and files *)

\* dict.get(key) of a key the entry does not have
Missing == "<missing>"

\* plugin names, in the order sorted() puts them
NameOrder == <<"a", "b", "c">>

Names == {NameOrder[i] : i \in 1..Len(NameOrder)}

\* entries of a "plugins" list: named with a url, named without, unnamed
Entries ==
    { [name |-> "a", url |-> "https://git/a"],
      [name |-> "b", url |-> Missing],
      [name |-> Missing, url |-> "https://git/x"] }

SeqsUpTo(S, n) == UNION { [1..k -> S] : k \in 0..n }

Absent == [kind |-> "absent", plugins |-> <<>>]

Doc(kind) == [kind |-> kind, plugins |-> <<>>]

ListDocs(n) == { [kind |-> "list", plugins |-> ps] : ps \in SeqsUpTo(Entries, n) }

\* what a file can hold: nothing readable as JSON ("empty": zero bytes or
\* blanks; "garbage": anything json rejects), a JSON object without a
\* "plugins" key or with a falsy non-list one ("no_key"), one whose "plugins"
\* is a truthy value that is no list ("not_list"), or a list of entries
FileContents(n) ==
    {Absent, Doc("empty"), Doc("garbage"), Doc("no_key"), Doc("not_list")}
        \cup ListDocs(n)

IndexContents == FileContents(MaxCatalog)

InstalledContents == FileContents(MaxInstalled)

ExampleContents == FileContents(MaxExample)

\* os.path.exists(path)
Exists(file) == file.kind # "absent"

\* json.load(f) raises (FileNotFoundError, JSONDecodeError)
LoadRaises(file) == file.kind \in {"absent", "empty", "garbage"}

\* the loop "for plugin in data['plugins']: if 'name' in plugin: d[name] = plugin"
\* (a later entry of the same name replaces an earlier one)
RECURSIVE ByName(_)
ByName(ps) ==
    IF ps = <<>> THEN << >>
    ELSE LET n    == Len(ps)
             rest == ByName(SubSeq(ps, 1, n - 1))
             e    == ps[n]
         IN  IF e.name = Missing THEN rest
             ELSE [k \in (DOMAIN rest) \cup {e.name} |->
                      IF k = e.name THEN e ELSE rest[k]]

\* "if 'plugins' in data and isinstance(data['plugins'], list)" and the loop
LoadPlugins(file) ==
    IF file.kind = "list" THEN ByName(file.plugins) ELSE << >>

----------------------------------------------------------------------------
(* check_and_create_installed_plugins_file *)

\* ShouldRestore with a fault: only a missing file is restored
ShouldRestore_MissingOnly(file) == ~Exists(file)

\* should_restore: the file is missing, is empty after strip(), does not
\* parse, or data.get('plugins') is falsy (no key, or an empty list)
ShouldRestore(file) ==
    \/ ~Exists(file)
    \/ file.kind \in {"empty", "garbage", "no_key"}
    \/ file.kind = "list" /\ file.plugins = <<>>

\* CheckAndCreate with a fault: the template is copied whenever it exists
CheckAndCreate_Always(installed, example) ==
    IF Exists(example) THEN example ELSE installed

\* the content of plugins.json after the call: shutil.copy of the template
\* over it when should_restore and the template exists, else untouched
CheckAndCreate(installed, example) ==
    IF ShouldRestore(installed) /\ Exists(example) THEN example ELSE installed

----------------------------------------------------------------------------
(* Texts *)

EmptyText == << <<>> >>

Header == <<"NAME", "VERSION", "STATUS", "COMMIT">>
Separator == <<"------------------------------">>
RowA == <<"a", "1.0", "installed", "abc1234">>
RowA2 == <<"a", "1.1", "outdated", "def5678", "(update", "available)">>
RowB == <<"b", "2.0", "missing", "-">>
RowC == <<"c", "0.3", "installed", "fff0000">>
ShortRowB == <<"b", "2.0">>
BadHeader == <<"NAME", "STATUS">>
ErrRowB == <<"b", "9.9", "failed", "zzz9999">>

\* what "plugins.py list" may print on its standard output
ListStdout ==
    { EmptyText,
      <<Header, Separator, <<>>>>,
      <<Header, Separator, RowA, <<>>>>,
      <<Header, Separator, RowA, RowB, <<>>>>,
      <<Header, Separator, ShortRowB, RowC, <<>>>>,
      <<Header, Separator, RowB, RowA, <<>>, RowA2, <<>>>>,
      <<BadHeader, Separator, RowA, <<>>>> }

\* and on its standard error
ListStderr == { EmptyText, <<ErrRowB, <<>>>> }

\* stdout + "\n" + stderr: split on '\n', the lines of the sum are the lines
\* of stdout followed by the lines of stderr
FullOutput(stdout, stderr) == stdout \o stderr

\* str.strip() of a whole text: leading and trailing blank lines go; the
\* empty string is left as one empty line
RECURSIVE StripLeft(_)
StripLeft(t) ==
    IF t = <<>> THEN <<>>
    ELSE IF Head(t) = <<>> THEN StripLeft(Tail(t)) ELSE t

RECURSIVE StripRight(_)
StripRight(t) ==
    IF t = <<>> THEN <<>>
    ELSE IF t[Len(t)] = <<>> THEN StripRight(SubSeq(t, 1, Len(t) - 1)) ELSE t

StripText(t) ==
    LET s == StripRight(StripLeft(t)) IN IF s = <<>> THEN EmptyText ELSE s

----------------------------------------------------------------------------
(* parse_plugin_list_output *)

\* re.search(r"NAME\s+VERSION\s+STATUS\s+COMMIT", header)
HeaderMatches(line) ==
    \E i \in 1..(Len(line) - 3) :
        /\ line[i] = "NAME"
        /\ line[i + 1] = "VERSION"
        /\ line[i + 2] = "STATUS"
        /\ line[i + 3] = "COMMIT"

\* ParseLines with a fault: a row of fewer than four tokens ends the loop
RECURSIVE ParseLines_StopAtShortRow(_)
ParseLines_StopAtShortRow(lines) ==
    IF lines = <<>> THEN << >>
    ELSE LET parts == Head(lines)
             rest  == ParseLines_StopAtShortRow(Tail(lines))
         IN  IF parts = <<>> THEN rest
             ELSE IF Len(parts) < 4 THEN << >>
             ELSE [k \in (DOMAIN rest) \cup {parts[1]} |->
                      IF k \in DOMAIN rest THEN rest[k]
                      ELSE [version |-> parts[2], status |-> parts[3],
                            commit |-> parts[4]]]

\* the loop over the data lines: blank lines and lines of fewer than four
\* tokens are passed over, a later row of the same name replaces an earlier one
RECURSIVE ParseLines(_)
ParseLines(lines) ==
    IF lines = <<>> THEN << >>
    ELSE LET n     == Len(lines)
             rest  == ParseLines(SubSeq(lines, 1, n - 1))
             parts == lines[n]
         IN  IF Len(parts) >= 4
             THEN [k \in (DOMAIN rest) \cup {parts[1]} |->
                      IF k = parts[1]
                      THEN [version |-> parts[2], status |-> parts[3],
                            commit |-> parts[4]]
                      ELSE rest[k]]
             ELSE rest

ParsePluginListOutput(output) ==
    LET lines == StripText(output)
    IN  IF Len(lines) <= 2 THEN << >>
        ELSE IF ~HeaderMatches(lines[1]) THEN << >>
        ELSE ParseLines(SubSeq(lines, 3, Len(lines)))

----------------------------------------------------------------------------
(* run_shell_script, run_plugin_script *)

\* request fields and command-vector elements: a JSON string, a JSON number
\* (v is what str() makes of it), or null for a field the request lacks
JStr(s) == [t |-> "str", v |-> s]
JNum(s) == [t |-> "num", v |-> s]
JNull == [t |-> "null", v |-> ""]

\* Python truth of a request field
Truthy(j) == j.t # "null" /\ j.v # "" /\ ~(j.t = "num" /\ j.v = "0")

\* str(x)
PyStr(j) == JStr(j.v)

PYTHON_EXEC == JStr("python3")
PLUGINS_SCRIPT == JStr("plugins.py")

TimeoutMsg == << <<"Error:", "Script", "timed", "out", "after", "N", "seconds.">> >>
UnexpectedMsg == << <<"An", "unexpected", "error", "occurred:", "OSError">> >>
ScriptNotFoundMsg == << <<"Error:", "Script", "not", "found", "at", "plugins.py">> >>

\* what the child process does: Popen fails to launch it; it exits with a
\* code, having written stdout and stderr; or it is still running when the
\* timeout expires (child: whether it still runs when the caller gets its
\* result back)
LaunchFail ==
    [kind |-> "launch_fail", rc |-> 0, stdout |-> EmptyText,
     stderr |-> EmptyText, child |-> "none"]

Behaviours(outs, errs) ==
    {LaunchFail}
    \cup [kind : {"exit"}, rc : {0, 1}, stdout : outs, stderr : errs,
          child : {"exited"}]
    \cup [kind : {"timeout"}, rc : {0}, stdout : {EmptyText},
          stderr : {EmptyText}, child : {"running", "exited"}]

NoRun ==
    [called |-> FALSE, command |-> <<>>, beh |-> LaunchFail,
     raised |-> FALSE, child |-> "none"]

NoResult == [present |-> FALSE, success |-> FALSE, output |-> EmptyText]

Result(success, output) ==
    [present |-> TRUE, success |-> success, output |-> output]

\* ' '.join(command_list) at the top of run_shell_script, outside the try
JoinRaises(command_list) ==
    \E i \in 1..Len(command_list) : command_list[i].t # "str"

\* ShellResult with a fault: a failing run reports its error stream only
ShellResult_StderrOnFailure(beh) ==
    CASE beh.kind = "exit" ->
            Result(beh.rc = 0,
                   IF beh.rc = 0 THEN FullOutput(beh.stdout, beh.stderr)
                   ELSE beh.stderr)
      [] beh.kind = "timeout" -> Result(FALSE, TimeoutMsg)
      [] OTHER -> Result(FALSE, UnexpectedMsg)

\* the CommandResult of run_shell_script when it returns one
ShellResult(beh) ==
    CASE beh.kind = "exit" ->
            Result(beh.rc = 0, FullOutput(beh.stdout, beh.stderr))
      [] beh.kind = "timeout" -> Result(FALSE, TimeoutMsg)
      [] OTHER -> Result(FALSE, UnexpectedMsg)

\* the child when run_shell_script is left: communicate(timeout) raising
\* TimeoutExpired leaves the child as it is, nothing kills it
ChildAfter(beh) == beh.child

\* run_shell_script(command_list): the call as the run variable records it
RunShellScript(command_list, beh) ==
    IF JoinRaises(command_list)
    THEN [called |-> TRUE, command |-> command_list, beh |-> LaunchFail,
          raised |-> TRUE, child |-> "none"]
    ELSE [called |-> TRUE, command |-> command_list, beh |-> beh,
          raised |-> FALSE, child |-> ChildAfter(beh)]

\* what the caller of run_shell_script gets: nothing when it raised
ResultOf(r) == IF r.raised THEN NoResult ELSE ShellResult(r.beh)

\* run_plugin_script(args_list): no call at all when plugins.py is missing
RunPluginScript(script_exists, args_list, beh) ==
    IF ~script_exists THEN NoRun
    ELSE RunShellScript(<<PYTHON_EXEC, PLUGINS_SCRIPT>> \o args_list, beh)

PluginResultOf(script_exists, r) ==
    IF ~script_exists THEN Result(FALSE, ScriptNotFoundMsg) ELSE ResultOf(r)

----------------------------------------------------------------------------
(* download_plugins_index *)

\* the content of plugins_index.json after download_plugins_index(force);
\* fetched is what urlopen delivered, Absent when the download failed
DownloadPluginsIndex(force, file, fetched) ==
    IF ~force /\ Exists(file) THEN file
    ELSE IF Exists(fetched) THEN fetched ELSE file

\* its {'success': ...}
DownloadSucceeds(force, file, fetched) ==
    (~force /\ Exists(file)) \/ Exists(fetched)

----------------------------------------------------------------------------
(* get_plugin_status: the merge *)

\* entry.get('url', '-')
UrlOf(entry) == IF entry.url = Missing THEN "-" ELSE entry.url

\* available_plugins: a failure to read the catalog leaves it empty
LoadAvailable(file) == IF LoadRaises(file) THEN << >> ELSE LoadPlugins(file)

\* LiveStatuses with a fault: the output is parsed whatever the exit code
LiveStatuses_IgnoreFailure(list_result) ==
    ParsePluginListOutput(list_result.output)

\* plugin_statuses: empty when the list command failed, else parsed from
\* its output
LiveStatuses(list_result) ==
    IF ~list_result.success THEN << >>
    ELSE ParsePluginListOutput(list_result.output)

\* AllPluginNames with a fault: the live-status keys are left out
AllPluginNames_NoLive(available, installed, statuses) ==
    (DOMAIN available) \cup (DOMAIN installed)

\* all_plugin_names
AllPluginNames(available, installed, statuses) ==
    (DOMAIN available) \cup (DOMAIN installed) \cup (DOMAIN statuses)

\* SeedRecord with a fault: every name is seeded as "unknown"
SeedRecord_NoCatalogSeed(name, available, installed) ==
    [name |-> name,
     url |-> IF name \in DOMAIN available THEN UrlOf(available[name])
             ELSE IF name \in DOMAIN installed THEN UrlOf(installed[name])
             ELSE "-",
     version |-> "-", status |-> "unknown", commit |-> "-"]

\* merged_plugins[name] before the live status is looked at: the catalog
\* seed, or the "unknown" seed for a name the catalog lacks
SeedRecord(name, available, installed) ==
    IF name \in DOMAIN available
    THEN [name |-> name, url |-> UrlOf(available[name]), version |-> "-",
          status |-> "available", commit |-> "-"]
    ELSE [name |-> name,
          url |-> IF name \in DOMAIN installed
                  THEN UrlOf(installed[name]) ELSE "-",
          version |-> "-", status |-> "unknown", commit |-> "-"]

\* MergedRecord with a fault: the manifest is looked at before the live status
MergedRecord_ErrorFirst(name, available, installed, statuses) ==
    LET seed == SeedRecord(name, available, installed)
    IN  IF name \in DOMAIN installed
        THEN [seed EXCEPT !.status = "error"]
        ELSE IF name \in DOMAIN statuses
        THEN [seed EXCEPT !.version = statuses[name].version,
                          !.status = statuses[name].status,
                          !.commit = statuses[name].commit]
        ELSE seed

\* merged_plugins[name] at the end of the loop body
MergedRecord(name, available, installed, statuses) ==
    LET seed == SeedRecord(name, available, installed)
    IN  IF name \in DOMAIN statuses
        THEN [seed EXCEPT !.version = statuses[name].version,
                          !.status = statuses[name].status,
                          !.commit = statuses[name].commit]
        ELSE IF name \in DOMAIN installed
        THEN [seed EXCEPT !.status = "error"]
        ELSE seed

\* merged_plugins
MergePlugins(available, installed, statuses) ==
    [name \in AllPluginNames(available, installed, statuses) |->
        MergedRecord(name, available, installed, statuses)]

\* sorted(list(merged_plugins.values()), key=lambda p: p['name'])
SortByName(merged) ==
    LET present == SelectSeq(NameOrder, LAMBDA n : n \in DOMAIN merged)
    IN  IF present = <<>> THEN <<>>
        ELSE [i \in 1..Len(present) |-> merged[present[i]]]

----------------------------------------------------------------------------
(* get_plugin_boards *)

\* board_names: the names of the list's entries, in order
RECURSIVE BoardNames(_)
BoardNames(ps) ==
    IF ps = <<>> THEN <<>>
    ELSE IF Head(ps).name = Missing THEN BoardNames(Tail(ps))
    ELSE <<Head(ps).name>> \o BoardNames(Tail(ps))

GetPluginBoards(file) ==
    IF LoadRaises(file) \/ file.kind # "list" THEN <<>>
    ELSE BoardNames(file.plugins)

----------------------------------------------------------------------------
(* Responses *)

Response(code, success) ==
    [code |-> code, success |-> success, plugins |-> <<>>, boards |-> <<>>,
     output |-> EmptyText, unhandled |-> FALSE]

\* an exception that leaves the handler
Unhandled == [Response(500, FALSE) EXCEPT !.unhandled = TRUE]

\* jsonify(result) of a CommandResult
CommandResponse(res) ==
    IF ~res.present THEN Unhandled
    ELSE [Response(200, res.success) EXCEPT !.output = res.output]

----------------------------------------------------------------------------
(* Handlers *)

\* the branch check_and_create_installed_plugins_file takes
RestoreBranch(installed, example) ==
    IF ~ShouldRestore(installed) THEN "kept"
    ELSE IF Exists(example) THEN "copied" ELSE "no_template"

\* /api/plugins/status
GetPluginStatus ==
    \E fetched \in (IF Exists(index_file) THEN {Absent} ELSE IndexContents),
       script_exists \in BOOLEAN :
    \E beh \in (IF script_exists THEN Behaviours(ListStdout, ListStderr)
                ELSE {LaunchFail}) :
        LET index     == DownloadPluginsIndex(FALSE, index_file, fetched)
            available == LoadAvailable(index)
            manifest  == CheckAndCreate(installed_file, example_file)
            installed == LoadPlugins(manifest)
            r         == RunPluginScript(script_exists, <<JStr("list")>>, beh)
            result    == PluginResultOf(script_exists, r)
            statuses  == LiveStatuses(result)
            merged    == MergePlugins(available, installed, statuses)
        IN  /\ op = "idle"
            /\ op' = "get_plugin_status"
            /\ index_file' = index
            /\ restore' = RestoreBranch(installed_file, example_file)
            /\ installed_file' = manifest
            /\ example_file' = example_file
            /\ UNCHANGED asideVars
            /\ IF LoadRaises(manifest)
               THEN /\ run' = NoRun
                    /\ cmd_result' = NoResult
                    /\ plugin_statuses' = << >>
                    /\ response' = Response(500, FALSE)
               ELSE /\ run' = r
                    /\ cmd_result' = result
                    /\ plugin_statuses' = statuses
                    /\ response' = [Response(200, TRUE) EXCEPT
                                       !.plugins = SortByName(merged)]

\* /api/boards
ApiBoards ==
    LET manifest == CheckAndCreate(installed_file, example_file)
    IN  /\ op = "idle"
        /\ op' = "get_plugin_boards"
        /\ restore' = RestoreBranch(installed_file, example_file)
        /\ installed_file' = manifest
        /\ response' = [Response(200, TRUE) EXCEPT
                           !.boards = GetPluginBoards(manifest)]
        /\ run' = NoRun
        /\ cmd_result' = NoResult
        /\ plugin_statuses' = << >>
        /\ UNCHANGED <<index_file, example_file, asideVars>>

\* /api/plugins/refresh
RefreshPluginsIndex ==
    \E fetched \in IndexContents :
        /\ op = "idle"
        /\ op' = "refresh_plugins_index"
        /\ index_file' = DownloadPluginsIndex(TRUE, index_file, fetched)
        /\ response' = Response(200, DownloadSucceeds(TRUE, index_file, fetched))
        /\ restore' = "none"
        /\ run' = NoRun
        /\ cmd_result' = NoResult
        /\ plugin_statuses' = << >>
        /\ UNCHANGED <<installed_file, example_file, asideVars>>

\* what a mutating plugins.py command prints
CmdStdout == { <<<<"done">>, <<>>>> }
CmdStderr == { <<<<"fatal:", "failed">>, <<>>>> }

\* a handler that runs plugins.py with args_list and returns jsonify(result);
\* a child that was launched may have rewritten plugins.json, which the
\* management executable owns
PluginCommand(name, args_list) ==
    \E script_exists \in BOOLEAN :
    \E beh \in (IF script_exists THEN Behaviours(CmdStdout, CmdStderr)
                ELSE {LaunchFail}) :
        LET r      == RunPluginScript(script_exists, args_list, beh)
            result == PluginResultOf(script_exists, r)
        IN  /\ op = "idle"
            /\ op' = name
            /\ run' = r
            /\ cmd_result' = result
            /\ response' = CommandResponse(result)
            /\ restore' = "none"
            /\ plugin_statuses' = << >>
            /\ IF r.called /\ ~r.raised /\ r.beh.kind # "launch_fail"
               THEN installed_file' \in InstalledContents
               ELSE installed_file' = installed_file
            /\ UNCHANGED <<index_file, example_file, asideVars>>

\* a request the handler turns down with 400 before running anything
BadRequest(name) ==
    /\ op = "idle"
    /\ op' = name
    /\ response' = Response(400, FALSE)
    /\ restore' = "none"
    /\ run' = NoRun
    /\ cmd_result' = NoResult
    /\ plugin_statuses' = << >>
    /\ UNCHANGED <<index_file, installed_file, example_file, asideVars>>

\* the "url" and "name" fields a request may carry
UrlFields == {JNull, JStr("https://git/b"), JNum("42")}
NameFields == {JNull, JStr("b"), JNum("7")}

\* /api/plugins/add
AddPlugin ==
    \E url \in UrlFields :
        IF ~Truthy(url) THEN BadRequest("add_plugin")
        ELSE PluginCommand("add_plugin", <<JStr("add"), url>>)

\* /api/plugins/remove
RemovePlugin ==
    \E name \in NameFields, keep_config \in BOOLEAN :
        IF ~Truthy(name) THEN BadRequest("remove_plugin")
        ELSE PluginCommand("remove_plugin",
                 <<JStr("rm"), name>> \o
                 (IF keep_config THEN <<JStr("--keep-config")>> ELSE <<>>))

\* /api/plugins/update
UpdatePlugin ==
    \E name \in NameFields :
        IF ~Truthy(name) THEN BadRequest("update_plugin")
        ELSE PluginCommand("update_plugin", <<JStr("update"), name>>)

\* /api/plugins/sync
SyncPlugins == PluginCommand("sync_plugins", <<JStr("sync")>>)

\* the warning paho-mqtt 2.x writes to the error stream for mqtt.Client()
\* without a callback API version; it starts with the path of the script
DeprecationLine ==
    <<"/home/hayes/nhl-setup/web/mqtt_test.py:41:", "DeprecationWarning:",
      "Callback", "API", "version", "1", "is", "deprecated">>

\* what mqtt_test.py and issue_upload.py print
ProbeStdout == { <<<<"yes">>, <<>>>>, <<<<"no">>, <<>>>>, EmptyText }
ProbeStderr ==
    { EmptyText,
      <<<<"Error:", "library", "not", "found">>, <<>>>>,
      <<DeprecationLine, <<>>>> }

\* the fields of a /api/mqtt-test request
BrokerFields == {JNull, JStr("broker.lan"), JNum("10")}
PortFields == {JNull, JNum("1883"), JStr("1883")}
CredentialFields == {JNull, JStr("secret")}

\* 'yes' in token.lower(), for the tokens the texts here are made of: a
\* substring test, so a longer word that has the letters in it counts
LowerHasYes(token) ==
    token \in {"yes", "Yes", "YES", "/home/hayes/nhl-setup/web/mqtt_test.py:41:"}

\* 'yes' in result['output'].lower(); the three letters hold no blank, so
\* they are in the text exactly when they are in one of its tokens
ContainsYes(text) ==
    \E i \in 1..Len(text) : \E j \in 1..Len(text[i]) :
        LowerHasYes(text[i][j])

\* a handler whose script is not where it is looked for
ScriptNotFound(name) ==
    /\ op = "idle"
    /\ op' = name
    /\ response' = Response(404, FALSE)
    /\ restore' = "none"
    /\ run' = NoRun
    /\ cmd_result' = NoResult
    /\ plugin_statuses' = << >>
    /\ UNCHANGED <<index_file, installed_file, example_file, asideVars>>

\* command = [PYTHON_EXEC, script_path, broker, str(port)], with
\* -u username -p password when both are given
MqttCommand(broker, port, username, password) ==
    <<PYTHON_EXEC, JStr("mqtt_test.py"), broker, PyStr(port)>> \o
    (IF Truthy(username) /\ Truthy(password)
     THEN <<JStr("-u"), username, JStr("-p"), password>> ELSE <<>>)

\* the probe's verdict from the CommandResult
MqttVerdict(result) == result.success /\ ContainsYes(result.output)

\* /api/mqtt-test
MqttTest ==
    \E broker \in BrokerFields, port \in PortFields,
       username \in CredentialFields, password \in CredentialFields,
       script_exists \in BOOLEAN :
        IF ~Truthy(broker) \/ ~Truthy(port) THEN BadRequest("mqtt_test")
        ELSE IF ~script_exists THEN ScriptNotFound("mqtt_test")
        ELSE \E beh \in Behaviours(ProbeStdout, ProbeStderr) :
            LET r == RunShellScript(
                         MqttCommand(broker, port, username, password), beh)
                result == ResultOf(r)
            IN  /\ op = "idle"
                /\ op' = "mqtt_test"
                /\ run' = r
                /\ cmd_result' = result
                /\ response' =
                      IF ~result.present THEN Unhandled
                      ELSE [Response(200, MqttVerdict(result)) EXCEPT
                               !.output = result.output]
                /\ restore' = "none"
                /\ plugin_statuses' = << >>
                /\ UNCHANGED <<index_file, installed_file, example_file, asideVars>>

\* /api/run-issue-uploader
RunIssueUploader ==
    \E script_exists \in BOOLEAN :
        IF ~script_exists THEN ScriptNotFound("run_issue_uploader")
        ELSE \E beh \in Behaviours(CmdStdout, CmdStderr) :
            LET r == RunShellScript(
                         <<PYTHON_EXEC, JStr("issue_upload.py"),
                           JStr("--scoreboard_dir"), JStr(".")>>, beh)
                result == ResultOf(r)
            IN  /\ op = "idle"
                /\ op' = "run_issue_uploader"
                /\ run' = r
                /\ cmd_result' = result
                /\ response' = CommandResponse(result)
                /\ restore' = "none"
                /\ plugin_statuses' = << >>
                /\ UNCHANGED <<index_file, installed_file, example_file, asideVars>>

----------------------------------------------------------------------------
(* What the single-request specifications hold still *)

\* no handler is inside an external call
NoCall ==
    [target |-> "none", deadline |-> FALSE, remote |-> "answers",
     waiting |-> FALSE]

\* plugins.json as it was when the requests came in, no copy begun
WholeDisk == [intact |-> TRUE, cells |-> <<>>]

\* no mqtt_test.py process
NoProbe ==
    /\ argv = [port |-> "", auth |-> FALSE]
    /\ host = [paho |-> FALSE, connect |-> "refused", connack |-> "never"]
    /\ main_thread = [pc |-> "none", polls |-> 0, exit_code |-> 0]
    /\ loop_thread = [pc |-> "none", rc |-> "none", in_time |-> FALSE]
    /\ connection_state = [status |-> "no", finished |-> FALSE]
    /\ sys_stdout = <<>>

\* one request at a time, returning at once
Alone ==
    /\ call = NoCall
    /\ disk = WholeDisk
    /\ workers = << >>
    /\ NoProbe

----------------------------------------------------------------------------
(* Spec: the read path (status reconciliation, board list, catalog         *)
(* refresh) over every state of the three files                            *)

\* a worker between two requests
Idle ==
    /\ op = "idle"
    /\ restore = "none"
    /\ run = NoRun
    /\ cmd_result = NoResult
    /\ plugin_statuses = << >>
    /\ response = Response(0, FALSE)

\* the handler's return value goes out as the HTTP response and the worker
\* takes the next request
Respond ==
    /\ op # "idle"
    /\ ~call.waiting
    /\ op' = "idle"
    /\ restore' = "none"
    /\ run' = NoRun
    /\ cmd_result' = NoResult
    /\ plugin_statuses' = << >>
    /\ response' = Response(0, FALSE)
    /\ UNCHANGED <<index_file, installed_file, example_file, asideVars>>

Init ==
    /\ index_file \in IndexContents
    /\ installed_file \in InstalledContents
    /\ example_file \in ExampleContents
    /\ Idle
    /\ Alone

Next ==
    \/ GetPluginStatus
    \/ ApiBoards
    \/ RefreshPluginsIndex
    \/ Respond

Spec == Init /\ [][Next]_vars

----------------------------------------------------------------------------
(* SpecCommands: the handlers that run a command, from a fresh install     *)
(* (no catalog yet, the manifest as the template ships it)                 *)

ShippedManifest == [kind |-> "list", plugins |-> <<CHOOSE e \in Entries : e.name = "a">>]

InitCommands ==
    /\ index_file = Absent
    /\ installed_file = ShippedManifest
    /\ example_file = ShippedManifest
    /\ Idle
    /\ Alone

NextCommands ==
    \/ MqttTest
    \/ RunIssueUploader
    \/ AddPlugin
    \/ RemovePlugin
    \/ UpdatePlugin
    \/ SyncPlugins
    \/ Respond

SpecCommands == InitCommands /\ [][NextCommands]_vars

----------------------------------------------------------------------------
(* SpecParser: parse_plugin_list_output applied to every text of up to     *)
(* MaxLines lines over a small alphabet of lines                           *)

\* longest text given to the parser, in lines
MaxLines == 4

IndentedHeader == <<"#", "NAME", "VERSION", "STATUS", "COMMIT">>

\* the lines a text is made of: blank, headers good and bad, a separator,
\* rows of four tokens, of more and of fewer
ParserLines ==
    {<<>>, Header, IndentedHeader, BadHeader, Separator, RowA2, RowB,
     ShortRowB}

\* str.split('\n') gives at least one line
ParserTexts == SeqsUpTo(ParserLines, MaxLines) \ {<<>>}

\* parse_plugin_list_output(output)
ParseOutput ==
    \E text \in ParserTexts :
        /\ op = "idle"
        /\ op' = "parse_plugin_list_output"
        /\ cmd_result' = Result(TRUE, text)
        /\ plugin_statuses' = ParsePluginListOutput(text)
        /\ response' = Response(0, FALSE)
        /\ restore' = "none"
        /\ run' = NoRun
        /\ UNCHANGED <<index_file, installed_file, example_file, asideVars>>

NextParser ==
    \/ ParseOutput
    \/ Respond

SpecParser == InitCommands /\ [][NextParser]_vars

----------------------------------------------------------------------------
(* SpecProbe: one run of mqtt_test.py, main() and the client's network     *)
(* loop thread interleaved statement by statement.  Of paho-mqtt the model *)
(* keeps what the script relies on: connect() raises when the broker       *)
(* cannot be reached, the broker's CONNACK is handed to on_connect on the  *)
(* loop thread, once for the connection, and loop_stop() returns when that *)
(* thread has ended.                                                       *)

\* polls of connection_state before time.time() - start_time > timeout
MaxPolls == 2

serverVars ==
    <<index_file, installed_file, example_file, op, restore, run,
      cmd_result, plugin_statuses, response>>

\* the port argument as typed, and whether -u and -p are both given
ProbeArgs == [port : {"1883", "abc"}, auth : BOOLEAN]

\* argparse type=int: int(port) succeeds
PortIsInt(port) == port \in {"1883"}

\* the library is installed or not; connect() succeeds, is refused or
\* fails to resolve the name; the broker acknowledges with a return code
\* (5: not authorised) or never
Hosts ==
    [paho : BOOLEAN, connect : {"ok", "refused", "dns"},
     connack : {"0", "5", "never"}]

\* print(line)
PrintLine(out, line) == Append(out, line)

\* sys.exit(code), or the end of main()
Exit(code) == [pc |-> "exited", polls |-> main_thread.polls, exit_code |-> code]

At(pc) == [main_thread EXCEPT !.pc = pc]

\* lines 5-11: the import guard
ImportGuard ==
    /\ main_thread.pc = "import"
    /\ IF host.paho
       THEN /\ main_thread' = At("parse_args")
            /\ sys_stdout' = sys_stdout
       ELSE /\ sys_stdout' = PrintLine(sys_stdout, "no")
            /\ main_thread' = Exit(1)
    /\ UNCHANGED <<serverVars, call, healVars, argv, host, loop_thread,
                   connection_state>>

\* lines 25-31: parser.parse_args(); a port that is no integer makes
\* argparse write its usage to the error stream and exit with status 2
ParseArgs ==
    /\ main_thread.pc = "parse_args"
    /\ main_thread' = IF PortIsInt(argv.port) THEN At("connect") ELSE Exit(2)
    /\ UNCHANGED <<serverVars, call, healVars, argv, host, loop_thread,
                   connection_state, sys_stdout>>

\* lines 34-49 and 69-71: the shared dict, the client, client.connect();
\* an exception prints "no"
Connect ==
    /\ main_thread.pc = "connect"
    /\ connection_state' = [status |-> "no", finished |-> FALSE]
    /\ IF host.connect = "ok"
       THEN /\ main_thread' = At("loop_start")
            /\ sys_stdout' = sys_stdout
       ELSE /\ sys_stdout' = PrintLine(sys_stdout, "no")
            /\ main_thread' = Exit(0)
    /\ UNCHANGED <<serverVars, call, healVars, argv, host, loop_thread>>

\* line 52: client.loop_start()
LoopStart ==
    /\ main_thread.pc = "loop_start"
    /\ main_thread' = At("poll")
    /\ loop_thread' = [loop_thread EXCEPT !.pc = "select"]
    /\ UNCHANGED <<serverVars, call, healVars, argv, host, connection_state,
                   sys_stdout>>

\* lines 58-61: one turn of the while loop
Poll ==
    /\ main_thread.pc = "poll"
    /\ main_thread' =
          IF connection_state.finished THEN At("loop_stop")
          ELSE IF main_thread.polls >= MaxPolls THEN At("loop_stop")
          ELSE [main_thread EXCEPT !.polls = @ + 1]
    /\ UNCHANGED <<serverVars, call, healVars, argv, host, loop_thread,
                   connection_state, sys_stdout>>

\* line 63: client.loop_stop() asks the loop thread to end
LoopStop ==
    /\ main_thread.pc = "loop_stop"
    /\ main_thread' = At("join")
    /\ UNCHANGED <<serverVars, call, healVars, argv, host, loop_thread,
                   connection_state, sys_stdout>>

\* LoopStopReturns with a fault: loop_stop() does not wait for the thread
LoopStopReturns_NoJoin(thread) == TRUE

\* loop_stop() returns: it joins the loop thread
LoopStopReturns(thread) == thread.pc = "terminated"

\* lines 63-64: loop_stop() returns, client.disconnect()
Join ==
    /\ main_thread.pc = "join"
    /\ LoopStopReturns(loop_thread)
    /\ main_thread' = At("print")
    /\ UNCHANGED <<serverVars, call, healVars, argv, host, loop_thread,
                   connection_state, sys_stdout>>

\* line 67: print(connection_state['status'])
PrintStatus ==
    /\ main_thread.pc = "print"
    /\ sys_stdout' = PrintLine(sys_stdout, connection_state.status)
    /\ main_thread' = Exit(0)
    /\ UNCHANGED <<serverVars, call, healVars, argv, host, loop_thread,
                   connection_state>>

\* main() has not yet come back from loop_stop()
LoopNotStopped == main_thread.pc \in {"poll", "loop_stop", "join"}

\* the loop thread reads the broker's CONNACK and calls on_connect
Connack ==
    /\ loop_thread.pc = "select"
    /\ loop_thread.rc = "none"
    /\ host.connack # "never"
    /\ loop_thread' = [pc |-> "on_connect", rc |-> host.connack,
                       in_time |-> LoopNotStopped]
    /\ UNCHANGED <<serverVars, call, healVars, argv, host, main_thread,
                   connection_state, sys_stdout>>

\* line 18: userdata['finished'] = True
OnConnectFinished ==
    /\ loop_thread.pc = "on_connect"
    /\ connection_state' = [connection_state EXCEPT !.finished = TRUE]
    /\ loop_thread' = [loop_thread EXCEPT !.pc = "on_connect_rc"]
    /\ UNCHANGED <<serverVars, call, healVars, argv, host, main_thread,
                   sys_stdout>>

\* lines 19-22: userdata['status'] = "yes" if rc == 0 else "no"
OnConnectStatus ==
    /\ loop_thread.pc = "on_connect_rc"
    /\ connection_state' =
          [connection_state EXCEPT
              !.status = IF loop_thread.rc = "0" THEN "yes" ELSE "no"]
    /\ loop_thread' = [loop_thread EXCEPT !.pc = "select"]
    /\ UNCHANGED <<serverVars, call, healVars, argv, host, main_thread,
                   sys_stdout>>

\* the loop thread, between two packets, sees that it was asked to end
LoopExit ==
    /\ loop_thread.pc = "select"
    /\ main_thread.pc \in {"join", "print", "exited"}
    /\ loop_thread' = [loop_thread EXCEPT !.pc = "terminated"]
    /\ UNCHANGED <<serverVars, call, healVars, argv, host, main_thread,
                   connection_state, sys_stdout>>

InitProbe ==
    /\ index_file = Absent
    /\ installed_file = ShippedManifest
    /\ example_file = ShippedManifest
    /\ Idle
    /\ call = NoCall
    /\ disk = WholeDisk
    /\ workers = << >>
    /\ argv \in ProbeArgs
    /\ host \in Hosts
    /\ main_thread = [pc |-> "import", polls |-> 0, exit_code |-> 0]
    /\ loop_thread = [pc |-> "none", rc |-> "none", in_time |-> FALSE]
    /\ connection_state = [status |-> "no", finished |-> FALSE]
    /\ sys_stdout = <<>>

NextProbe ==
    \/ ImportGuard
    \/ ParseArgs
    \/ Connect
    \/ LoopStart
    \/ Poll
    \/ LoopStop
    \/ Join
    \/ PrintStatus
    \/ Connack
    \/ OnConnectFinished
    \/ OnConnectStatus
    \/ LoopExit

SpecProbe == InitProbe /\ [][NextProbe]_vars

----------------------------------------------------------------------------
(* SpecExternal: the handlers at the calls they make to something outside  *)
(* the server (a child process, the catalog's web server, Supervisor): the *)
(* handler waits in the call until the other side answers or, where the    *)
(* call was given a timeout, until the timeout expires.                    *)

\* communicate: process.communicate(timeout=timeout) in run_shell_script;
\* urlopen: urllib.request.urlopen(PLUGINS_INDEX_URL);
\* xmlrpc: a method call on xmlrpc.client.ServerProxy(url);
\* connect_ex: the socket of check_supervisor after sock.settimeout(1)
CallSites ==
    [handler : {"get_plugin_status", "refresh_plugins_index"},
     target : {"urlopen"}]
    \cup
    [handler : {"get_plugin_status", "add_plugin", "remove_plugin",
                "update_plugin", "sync_plugins", "mqtt_test",
                "run_issue_uploader"},
     target : {"communicate"}]
    \cup
    [handler : {"api_supervisor_processes", "api_supervisor_start",
                "api_supervisor_stop", "api_supervisor_tail_stderr"},
     target : {"xmlrpc"}]
    \cup
    [handler : {"api_status"}, target : {"connect_ex"}]

\* the call is made with a timeout
HasTimeout(target) == target \in {"communicate", "connect_ex"}

\* a call that is waiting comes back: the other side answers, or the
\* timeout the call was given expires
CanReturn(c) == c.remote = "answers" \/ c.deadline

\* a handler reaches one of its external calls; get_plugin_status downloads
\* the catalog only when the file is not there
ExternalCall ==
    \E site \in CallSites, remote \in {"answers", "silent"} :
        /\ op = "idle"
        /\ (site.handler = "get_plugin_status" /\ site.target = "urlopen")
              => ~Exists(index_file)
        /\ op' = site.handler
        /\ call' = [target |-> site.target,
                    deadline |-> HasTimeout(site.target),
                    remote |-> remote, waiting |-> TRUE]
        /\ UNCHANGED <<index_file, installed_file, example_file, restore,
                       run, cmd_result, plugin_statuses, response, healVars,
                       probeVars>>

\* the other side answers and the handler goes on to its return; what
\* urlopen delivered is written to plugins_index.json
RemoteAnswers ==
    /\ call.waiting
    /\ call.remote = "answers"
    /\ call' = NoCall
    /\ IF call.target = "urlopen"
       THEN \E fetched \in IndexContents :
               LET force == op = "refresh_plugins_index"
               IN  /\ index_file' =
                         DownloadPluginsIndex(force, index_file, fetched)
                   /\ response' =
                         Response(200, DownloadSucceeds(force, index_file, fetched))
       ELSE \E ok \in BOOLEAN :
               /\ index_file' = index_file
               /\ response' = Response(IF ok THEN 200 ELSE 500, ok)
    /\ UNCHANGED <<installed_file, example_file, op, restore, run,
                   cmd_result, plugin_statuses, healVars, probeVars>>

\* the timeout expires before an answer: run_shell_script returns its
\* timeout result, check_supervisor returns False
TimeoutExpires ==
    /\ call.waiting
    /\ call.remote = "silent"
    /\ call.deadline
    /\ call' = NoCall
    /\ response' = IF call.target = "communicate"
                   THEN CommandResponse(Result(FALSE, TimeoutMsg))
                   ELSE Response(200, FALSE)
    /\ UNCHANGED <<index_file, installed_file, example_file, op, restore,
                   run, cmd_result, plugin_statuses, healVars, probeVars>>

InitExternal ==
    /\ index_file \in IndexContents
    /\ installed_file = ShippedManifest
    /\ example_file = ShippedManifest
    /\ Idle
    /\ Alone

NextExternal ==
    \/ ExternalCall
    \/ RemoteAnswers
    \/ TimeoutExpires
    \/ Respond

SpecExternal == InitExternal /\ [][NextExternal]_vars

----------------------------------------------------------------------------
(* SpecHeal: two requests of the read path at once (app.run serves each    *)
(* request on a thread of its own), each going through                     *)
(* check_and_create_installed_plugins_file and then loading plugins.json.  *)
(* shutil.copy opens the destination for writing, which empties it, and    *)
(* then writes the template's bytes through its own file position, a chunk *)
(* at a time.                                                              *)

\* the writes one copy of a template that is not empty takes
MaxChunks == 2

Workers == {1, 2}

\* the chunks of the template, by number; a template of zero bytes has none
ChunksOf(example) == IF example.kind = "empty" THEN 0 ELSE MaxChunks

\* the cells hold the whole template, chunk for chunk
Complete(cells, example) ==
    /\ Len(cells) = ChunksOf(example)
    /\ \A i \in 1..Len(cells) : cells[i] = i

\* what a reader of plugins.json gets: the content it had while no copy has
\* touched it; after that nothing at all, the template, or a piece of the
\* template that does not parse
OnDisk(d, old, example) ==
    IF d.intact THEN old
    ELSE IF Complete(d.cells, example) THEN example
    ELSE IF d.cells = <<>> THEN Doc("empty")
    ELSE Doc("garbage")

\* a copy has emptied the file and the template is not yet whole in it
CopyInProgress(d, example) == ~d.intact /\ ~Complete(d.cells, example)

\* WriteAt with a fault: the chunk goes to the end of the file
WriteAt_Append(cells, pos, chunk) == Append(cells, chunk)

\* write(chunk) at file position pos; cells the file did not have before
\* that position are a hole of zero bytes (0)
WriteAt(cells, pos, chunk) ==
    [i \in 1..(IF pos > Len(cells) THEN pos ELSE Len(cells)) |->
        IF i = pos THEN chunk
        ELSE IF i <= Len(cells) THEN cells[i] ELSE 0]

Worker(pc, should_restore, offset, torn, failed) ==
    [pc |-> pc, should_restore |-> should_restore, offset |-> offset,
     torn |-> torn, failed |-> failed]

\* lines 196-221: the validation of plugins.json and the look for the
\* template
CheckManifest(w) ==
    LET me == workers[w]
        sr == ShouldRestore(installed_file)
    IN  /\ me.pc = "check"
        /\ workers' = [workers EXCEPT ![w] =
              Worker(IF sr /\ Exists(example_file) THEN "copy" ELSE "load",
                     sr, 0,
                     me.torn \/ CopyInProgress(disk, example_file),
                     me.failed)]
        /\ UNCHANGED <<index_file, installed_file, example_file, op, restore,
                       run, cmd_result, plugin_statuses, response, call, disk,
                       probeVars>>

\* line 224, shutil.copy: open(dst, 'wb')
CopyOpen(w) ==
    LET me == workers[w]
        d  == [intact |-> FALSE, cells |-> <<>>]
    IN  /\ me.pc = "copy"
        /\ disk' = d
        /\ installed_file' = OnDisk(d, installed_file, example_file)
        /\ workers' = [workers EXCEPT ![w] =
              [me EXCEPT !.pc = IF ChunksOf(example_file) = 0
                                THEN "load" ELSE "write"]]
        /\ UNCHANGED <<index_file, example_file, op, restore, run,
                       cmd_result, plugin_statuses, response, call, probeVars>>

\* line 224, shutil.copy: the next chunk is written
CopyWrite(w) ==
    LET me  == workers[w]
        pos == me.offset + 1
        d   == [intact |-> FALSE, cells |-> WriteAt(disk.cells, pos, pos)]
    IN  /\ me.pc = "write"
        /\ disk' = d
        /\ installed_file' = OnDisk(d, installed_file, example_file)
        /\ workers' = [workers EXCEPT ![w] =
              [me EXCEPT !.offset = pos,
                         !.pc = IF pos = ChunksOf(example_file)
                                THEN "load" ELSE "write"]]
        /\ UNCHANGED <<index_file, example_file, op, restore, run,
                       cmd_result, plugin_statuses, response, call, probeVars>>

\* lines 563-572: open and json.load of plugins.json
LoadManifest(w) ==
    LET me == workers[w]
    IN  /\ me.pc = "load"
        /\ workers' = [workers EXCEPT ![w] =
              [me EXCEPT !.pc = "done",
                         !.torn = @ \/ CopyInProgress(disk, example_file),
                         !.failed = LoadRaises(installed_file)]]
        /\ UNCHANGED <<index_file, installed_file, example_file, op, restore,
                       run, cmd_result, plugin_statuses, response, call, disk,
                       probeVars>>

InitHeal ==
    /\ index_file = Absent
    /\ installed_file \in InstalledContents
    /\ example_file \in ExampleContents
    /\ Idle
    /\ call = NoCall
    /\ NoProbe
    /\ disk = WholeDisk
    /\ workers = [w \in Workers |-> Worker("check", FALSE, 0, FALSE, FALSE)]

NextHeal ==
    \/ \E w \in Workers : CheckManifest(w)
    \/ \E w \in Workers : CopyOpen(w)
    \/ \E w \in Workers : CopyWrite(w)
    \/ \E w \in Workers : LoadManifest(w)

SpecHeal == InitHeal /\ [][NextHeal]_vars

----------------------------------------------------------------------------
(* Properties of the reconciliation *)

ReadPath == {"get_plugin_status", "get_plugin_boards"}

\* the names a manifest or catalog file declares
NamesIn(file) ==
    IF file.kind = "list"
    THEN {file.plugins[i].name : i \in 1..Len(file.plugins)} \ {Missing}
    ELSE {}

\* the names of the returned plugin list
ReturnedNames == {response.plugins[i].name : i \in 1..Len(response.plugins)}

\* get_plugin_status has returned a merged list
Reconciled == op = "get_plugin_status" /\ response.success

\* C1: whenever get_plugin_status returns a plugin list, the names in it are
\* exactly the union of the catalog's names, the installed manifest's names
\* and the live-status names, and no name is in two records.
C1_KeySetIsUnion ==
    Reconciled =>
        /\ ReturnedNames = NamesIn(index_file) \cup NamesIn(installed_file)
                              \cup DOMAIN plugin_statuses
        /\ \A i, j \in 1..Len(response.plugins) :
              response.plugins[i].name = response.plugins[j].name => i = j

\* C1 witness: three names, each known to one source only
C1_Witness ==
    /\ Reconciled
    /\ NamesIn(index_file) = {"a"}
    /\ NamesIn(installed_file) = {"b"}
    /\ DOMAIN plugin_statuses = {"c"}
    /\ Len(response.plugins) = 3

\* C2: every name of the live-status map has, in the merged list, exactly
\* the live version, status and commit, whatever catalog and manifest say.
C2_LiveStatusWins ==
    Reconciled =>
        \A n \in DOMAIN plugin_statuses :
            \E i \in 1..Len(response.plugins) :
                /\ response.plugins[i].name = n
                /\ response.plugins[i].version = plugin_statuses[n].version
                /\ response.plugins[i].status = plugin_statuses[n].status
                /\ response.plugins[i].commit = plugin_statuses[n].commit

\* C2 witness: a name the catalog and the manifest both declare, reported
\* with its live status
C2_Witness ==
    /\ Reconciled
    /\ "a" \in NamesIn(index_file) \cap NamesIn(installed_file)
    /\ "a" \in DOMAIN plugin_statuses
    /\ \E i \in 1..Len(response.plugins) :
          response.plugins[i].name = "a" /\ response.plugins[i].status = "outdated"

\* C3: a name the live status lacks is "error" when the installed manifest
\* declares it and "available" when only the catalog does.
C3_StatusWithoutLive ==
    Reconciled =>
        \A i \in 1..Len(response.plugins) :
            LET p == response.plugins[i]
            IN  p.name \notin DOMAIN plugin_statuses =>
                    p.status = (IF p.name \in NamesIn(installed_file)
                                THEN "error" ELSE "available")

\* C3 witness: no live status at all; the catalog-only name is "available"
\* and the manifest-only name is "error"
C3_Witness ==
    /\ Reconciled
    /\ plugin_statuses = << >>
    /\ NamesIn(index_file) = {"a"}
    /\ NamesIn(installed_file) = {"b"}
    /\ Len(response.plugins) = 2
    /\ response.plugins[1].status = "available"
    /\ response.plugins[2].status = "error"


\* the manifest states the self-heal is for: the file is absent, empty or
\* unparsable, or its plugin list is missing or empty
NeedsHeal(file) ==
    \/ file.kind \in {"absent", "empty", "garbage", "no_key"}
    \/ file.kind = "list" /\ Len(file.plugins) = 0

\* a manifest that parses to at least one plugin entry
HasPlugins(file) == file.kind = "list" /\ Len(file.plugins) >= 1

\* C4: one call of get_plugin_status or get_plugin_boards on a manifest that
\* is absent, empty, unparsable or without plugins, with the template
\* present, leaves the manifest equal to the template.
C4_SelfHeal ==
    [][ (op' \in ReadPath /\ NeedsHeal(installed_file) /\ Exists(example_file))
            => installed_file' = example_file' ]_vars

\* C4 witness: a reconciliation that found nothing to load and copied a
\* template that holds a plugin
C4_Witness ==
    /\ op = "get_plugin_status"
    /\ restore = "copied"
    /\ installed_file = example_file
    /\ HasPlugins(example_file)

\* C5: no step of the read path changes a manifest that parses to at least
\* one plugin entry, whether or not the template exists or differs.
C5_ValidManifestKept ==
    [][ HasPlugins(installed_file) => installed_file' = installed_file ]_vars

\* C5 witness: a reconciliation over a valid manifest while a different
\* template is present
C5_Witness ==
    /\ op = "get_plugin_status"
    /\ restore = "kept"
    /\ HasPlugins(installed_file)
    /\ Exists(example_file)
    /\ example_file # installed_file

\* C6: when the manifest still cannot be loaded after the healing attempt,
\* get_plugin_status answers with success and the merged view of the catalog
\* and the live status (an empty installed set), not with an error.
C6_LoadNeverFailsCaller ==
    (op = "get_plugin_status" /\ LoadRaises(installed_file)) =>
        /\ response.success
        /\ response.code = 200
        /\ ReturnedNames = NamesIn(index_file) \cup DOMAIN plugin_statuses

\* the first line of the listing does not carry the column labels
MalformedListing(output) == ~HeaderMatches(StripText(output)[1])

\* C7: when the list command fails (script missing, non-zero exit, timeout,
\* launch failure) or its listing is malformed, the live-status map is empty
\* and get_plugin_status still succeeds with the union of catalog and
\* installed names, installed names "error", catalog-only names "available".
C7_ListFailureTolerated ==
    (/\ op = "get_plugin_status"
     /\ cmd_result.present
     /\ (~cmd_result.success \/ MalformedListing(cmd_result.output))) =>
        /\ plugin_statuses = << >>
        /\ response.success
        /\ ReturnedNames = NamesIn(index_file) \cup NamesIn(installed_file)
        /\ \A i \in 1..Len(response.plugins) :
              response.plugins[i].status =
                  (IF response.plugins[i].name \in NamesIn(installed_file)
                   THEN "error" ELSE "available")

\* C7 witness: the list command exits non-zero after printing a full table
C7_Witness ==
    /\ op = "get_plugin_status"
    /\ run.called
    /\ run.beh.kind = "exit"
    /\ run.beh.rc = 1
    /\ run.beh.stdout = <<Header, Separator, RowA, RowB, <<>>>>
    /\ ~cmd_result.success
    /\ response.success
    /\ NamesIn(index_file) = {"a"}
    /\ NamesIn(installed_file) = {"b"}

----------------------------------------------------------------------------
(* Properties of the command runner *)

\* run_shell_script launched a child that exited within the timeout
ChildExited == run.called /\ ~run.raised /\ run.beh.kind = "exit"

C9_NoChildOutlivesTimeout ==
    (run.called /\ ~run.raised /\ run.beh.kind = "timeout") =>
        /\ cmd_result.present
        /\ ~cmd_result.success
        /\ cmd_result.output = TimeoutMsg
        /\ run.child # "running"

\* C10: every call of run_shell_script hands a {success, output} result
\* back to its caller; a failed launch gives success=false with the error.
C10_RunnerNeverRaises ==
    run.called =>
        /\ ~run.raised
        /\ cmd_result.present
        /\ (run.beh.kind = "launch_fail" =>
                ~cmd_result.success /\ cmd_result.output = UnexpectedMsg)

----------------------------------------------------------------------------
(* Properties of the parser *)

Labels == <<"NAME", "VERSION", "STATUS", "COMMIT">>

\* the indices of a set, smallest and largest
MinOf(S) == CHOOSE i \in S : \A j \in S : i <= j
MaxOf(S) == CHOOSE i \in S : \A j \in S : j <= i

\* the reference: the header is the first line of the text that is not
\* blank; without the four labels side by side in it the map is empty;
\* else the line after the header is skipped and every later line of four
\* tokens or more gives name -> {version, status, commit} from its first
\* four tokens, the last such line of a name standing
ReferenceParse(text) ==
    LET nonblank == {i \in 1..Len(text) : Len(text[i]) > 0}
    IN  IF nonblank = {} THEN << >>
        ELSE
        LET h     == MinOf(nonblank)
            good  == \E i \in 0..(Len(text[h]) - 4) :
                         \A k \in 1..4 : text[h][i + k] = Labels[k]
            rows  == {i \in (h + 2)..Len(text) : Len(text[i]) >= 4}
            names == {text[i][1] : i \in rows}
        IN  IF ~good THEN << >>
            ELSE [n \in names |->
                    LET last == MaxOf({i \in rows : text[i][1] = n})
                    IN  [version |-> text[last][2],
                         status  |-> text[last][3],
                         commit  |-> text[last][4]]]

----------------------------------------------------------------------------
(* Properties of the connectivity probe *)

\* the text holds the word "yes", in any case, as a token of its own
HasYesToken(text) ==
    \E i \in 1..Len(text) : \E j \in 1..Len(text[i]) :
        text[i][j] \in {"yes", "Yes", "YES"}

\* C12: the handler reports success exactly when run_shell_script reported
\* success and the captured output holds the token "yes" (in any case); a
\* run that timed out, exited non-zero, failed to launch or printed the
\* verdict "no" is reported as failure.
C12_ProbeVerdict ==
    (op = "mqtt_test" /\ cmd_result.present) =>
        /\ response.success =
              (cmd_result.success /\ HasYesToken(cmd_result.output))
        /\ (run.beh.kind # "exit" \/ run.beh.rc # 0) => ~response.success
        /\ (run.beh.kind = "exit" /\ run.beh.stdout = <<<<"no">>, <<>>>>) =>
               ~response.success

----------------------------------------------------------------------------
(* Properties of the live status *)

\* C17: when the list command exits with code 0, the live-status map that
\* the reconciliation uses holds exactly what the table on the command's
\* standard output says: every name in it is the first token of a data row
\* of that table, with that row's version, status and commit; nothing the
\* command wrote to its error stream adds a name or changes a record.
C17_LiveStatusFromStdoutTable ==
    (/\ op = "get_plugin_status"
     /\ ChildExited
     /\ run.beh.rc = 0) =>
        /\ DOMAIN plugin_statuses \subseteq DOMAIN ReferenceParse(run.beh.stdout)
        /\ \A n \in DOMAIN plugin_statuses :
              plugin_statuses[n] = ReferenceParse(run.beh.stdout)[n]

\* the probe process has ended
ProbeEnded == main_thread.pc = "exited"

\* C13: whatever the command line and the host, mqtt_test.py never has more
\* than one line on its standard output, and when it ends it has printed
\* exactly one line, "yes" or "no".
C13_OneLineVerdict ==
    /\ Len(sys_stdout) <= 1
    /\ ProbeEnded => (sys_stdout = <<"yes">> \/ sys_stdout = <<"no">>)

\* main() printed connection_state['status'] after stopping the loop
PrintedStatus == ProbeEnded /\ loop_thread.pc # "none"

\* C18: when main() prints the status, the line is "yes" if on_connect was
\* called with rc = 0 before main() had stopped the network loop, and "no"
\* if on_connect was never called with rc = 0; so main() does not print a
\* "no" left over from before the callback wrote the status.
C18_VerdictFollowsCallback ==
    PrintedStatus =>
        /\ (loop_thread.rc = "0" /\ loop_thread.in_time)
               => sys_stdout = <<"yes">>
        /\ loop_thread.rc # "0" => sys_stdout = <<"no">>

\* C18 witness: on_connect ran with rc = 0 while main() was still polling
\* within its time, and main() printed "yes"
C18_Witness ==
    /\ PrintedStatus
    /\ loop_thread.rc = "0"
    /\ main_thread.polls < MaxPolls
    /\ sys_stdout = <<"yes">>

----------------------------------------------------------------------------
(* Properties of the external calls *)

\* C14: every external call a handler waits in was given a timeout, so
\* that it comes back even when the other side never answers: the
\* subprocess runs, the catalog download and the Supervisor RPC calls.
C14_EveryCallBounded ==
    call.waiting => (call.deadline /\ CanReturn(call))

----------------------------------------------------------------------------
(* Properties of concurrent self-heals *)

AllDone == workers # << >> /\ \A w \in Workers : workers[w].pc = "done"

\* C15: no request ever reads plugins.json while a copy has emptied it and
\* not yet written the whole template: what a request reads is the whole
\* old content or the whole template.
C15_AtomicReplace ==
    \A w \in DOMAIN workers : ~workers[w].torn

\* C16: when both requests have finished and one of them found the
\* manifest in need of healing with the template there, plugins.json holds
\* the template's content, whatever the order of their checks and writes.
C16_HealConverges ==
    (/\ AllDone
     /\ \E w \in Workers : workers[w].should_restore
     /\ Exists(example_file)) =>
        /\ installed_file = example_file
        /\ Complete(disk.cells, example_file)

\* C16 witness: both requests found the manifest invalid and both copied a
\* template that holds a plugin
C16_Witness ==
    /\ AllDone
    /\ \A w \in Workers :
          workers[w].should_restore /\ workers[w].offset = MaxChunks
    /\ HasPlugins(example_file)
    /\ installed_file = example_file

====
